---- MODULE Spec2Model ----
(***************************************************************************)
(* Model of the xdas tutorial "Prepare your data: Multiple acquisitions"   *)
(* (02_link_multi_acquisitions.ipynb and its earlier 11-cell revision)     *)
(* together with the README's shell steps.  The state is the working       *)
(* folder (data, outputs, tracked notebook), the Jupyter kernel (namespace,*)
(* execution counter, per-cell status and displayed result) and, for the   *)
(* library calls applied on their own, the argument and the result of one  *)
(* call.  Times are in milliseconds; a DataArray keeps its shape and its   *)
(* regular time axis (first label t0, step dt).                            *)
(***************************************************************************)
EXTENDS Integers, Sequences, FiniteSets, TLC

VARIABLES version, fs, ns, status, execution_count, counter, pc, out, opened, call, ret

vars == <<version, fs, ns, status, execution_count, counter, pc, out, opened, call, ret>>

(***************************************************************************)
(* Bounds of the model.                                                    *)
(***************************************************************************)
MaxFiles == 3
MaxDownloads == 2

(***************************************************************************)
(* Generic helpers.                                                        *)
(***************************************************************************)
Range(s) == {s[i] : i \in DOMAIN s}

RECURSIVE Distinct(_)
Distinct(s) ==
    IF s = <<>> THEN <<>>
    ELSE LET h == Head(s)
             IsNot(x) == x # h
         IN <<h>> \o Distinct(SelectSeq(Tail(s), IsNot))

RECURSIVE SumSeq(_)
SumSeq(s) == IF s = <<>> THEN 0 ELSE Head(s) + SumSeq(Tail(s))

Max(a, b) == IF a >= b THEN a ELSE b
Min(a, b) == IF a <= b THEN a ELSE b

(* ceil(x / d) for d > 0, on integers *)
CeilDiv(x, d) == -((-x) \div d)

(***************************************************************************)
(* Acquisition parametrizations seen in the recorded outputs: time step    *)
(* (ms), number of channels, channel spacing (m, as printed).              *)
(***************************************************************************)
Param ==
    [ccn   |-> [dt |-> 16, nd |-> 9998,  dx |-> 15],
     ser   |-> [dt |-> 16, nd |-> 10000, dx |-> 15],
     acq0  |-> [dt |-> 16, nd |-> 9998,  dx |-> 15],
     acq1  |-> [dt |-> 10, nd |-> 6666,  dx |-> 15],
     acq2  |-> [dt |-> 10, nd |-> 24994, dx |-> 4]]

FileDuration == 10000

File(dirs, acq, t0) ==
    [dirs |-> dirs, acq |-> acq, nt |-> FileDuration \div Param[acq].dt, t0 |-> t0]

(***************************************************************************)
(* The values of the library: DataArray, DataSequence, DataMapping.        *)
(***************************************************************************)
(* src names the call that opened the files the array reads *)
DataArray(acq, nt, t0, src) ==
    [kind |-> "DataArray", time |-> nt, distance |-> Param[acq].nd,
     t0 |-> t0, dt |-> Param[acq].dt, dx |-> Param[acq].dx, src |-> src]

(* a collection is a mutable Python object: id tells two objects apart, so   *)
(* that a mutation reaches every reference to the same object               *)
DataSequence(items, name, id) ==
    [kind |-> "DataSequence", name |-> name, id |-> id, keys |-> <<>>, vals |-> items]

DataMapping(keys, vals, name, id) ==
    [kind |-> "DataMapping", name |-> name, id |-> id, keys |-> keys, vals |-> vals]

PyList(items) == [type |-> "list", keys |-> <<>>, vals |-> items]
PyDict(keys, vals) == [type |-> "dict", keys |-> keys, vals |-> vals]

Unbound == [kind |-> "Unbound"]
None == [kind |-> "None"]
Raised(what) == [kind |-> "Error", what |-> what]
Module == [kind |-> "module"]
PyStr(s) == [kind |-> "str", value |-> s]
PyInt(n) == [kind |-> "int", value |-> n]

IsCollection(v) == v.kind \in {"DataSequence", "DataMapping"}
IsError(v) == v.kind = "Error"

(* DataCollection, but losing the name *)
DataCollection_noname(x, name, id) ==
    IF x.type = "list" THEN DataSequence(x.vals, "None", id)
    ELSE DataMapping(x.keys, x.vals, "None", id)

(* xd.DataCollection(x, name): a list gives a DataSequence, a dict a DataMapping *)
DataCollection(x, name, id) ==
    IF x.type = "list" THEN DataSequence(x.vals, name, id)
    ELSE DataMapping(x.keys, x.vals, name, id)

(* the label printed for a level: the capitalised name, "Collection" without name *)
Label(name) ==
    CASE name = "node" -> "Node"
      [] name = "cable" -> "Cable"
      [] name = "acquisition" -> "Acquisition"
      [] name = "event" -> "Event"
      [] name = "None" -> "Collection"
      [] OTHER -> name

(***************************************************************************)
(* dict / list behaviour of the collections.                               *)
(***************************************************************************)
HasKey(m, k) == k \in Range(m.keys)

getitem(c, k) ==
    IF c.kind = "DataMapping"
    THEN IF HasKey(c, k) THEN c.vals[k] ELSE Raised("KeyError")
    ELSE IF c.kind = "DataSequence"
    THEN IF k + 1 \in 1..Len(c.vals) THEN c.vals[k + 1] ELSE Raised("IndexError")
    ELSE Raised("TypeError")

setitem(m, k, v) ==
    [m EXCEPT !.keys = IF HasKey(m, k) THEN m.keys ELSE Append(m.keys, k),
              !.vals = [x \in Range(m.keys) \cup {k} |-> IF x = k THEN v ELSE m.vals[x]]]

update(m, k, v) == setitem(m, k, v)

append(s, x) == [s EXCEPT !.vals = Append(s.vals, x)]

(* c.copy(): a new object holding the same elements (shallow) *)
copy(v, tag) ==
    IF IsCollection(v) THEN [v EXCEPT !.id = <<tag>> \o v.id] ELSE v

(* copy(deep=True), but handing back the object itself *)
deepcopy_alias(v, tag) == v

RECURSIVE deepcopy(_, _)
(* c.copy(deep=True): new objects at every level *)
deepcopy(v, tag) ==
    IF v.kind = "DataSequence"
    THEN [v EXCEPT !.id = <<tag>> \o v.id,
                   !.vals = [i \in 1..Len(v.vals) |-> deepcopy(v.vals[i], tag)]]
    ELSE IF v.kind = "DataMapping"
    THEN [v EXCEPT !.id = <<tag>> \o v.id,
                   !.vals = [k \in Range(v.keys) |-> deepcopy(v.vals[k], tag)]]
    ELSE v

(* one in-place mutation of a collection object *)
Apply(c, mut) ==
    IF mut.op = "append" THEN append(c, mut.v) ELSE setitem(c, mut.k, mut.v)

RECURSIVE Mutate(_, _, _)
(* the effect of mutating the object id on a value that may reference it *)
Mutate(v, id, mut) ==
    IF ~IsCollection(v) THEN v
    ELSE LET below ==
               IF v.kind = "DataSequence"
               THEN [v EXCEPT !.vals = [i \in 1..Len(v.vals) |-> Mutate(v.vals[i], id, mut)]]
               ELSE [v EXCEPT !.vals = [k \in Range(v.keys) |-> Mutate(v.vals[k], id, mut)]]
         IN IF v.id = id THEN Apply(below, mut) ELSE below

RECURSIVE Leaves(_)
(* the DataArrays of a collection with their access paths, in order *)
Leaves(v) ==
    IF v.kind = "DataArray" THEN << [path |-> <<>>, da |-> v] >>
    ELSE IF v.kind = "DataSequence"
    THEN LET RECURSIVE Walk(_)
             Walk(i) == IF i > Len(v.vals) THEN <<>>
                        ELSE LET sub == Leaves(v.vals[i])
                             IN [j \in 1..Len(sub) |->
                                   [path |-> <<PyInt(i - 1)>> \o sub[j].path, da |-> sub[j].da]]
                                \o Walk(i + 1)
         IN Walk(1)
    ELSE LET RECURSIVE WalkK(_)
             WalkK(i) == IF i > Len(v.keys) THEN <<>>
                         ELSE LET sub == Leaves(v.vals[v.keys[i]])
                              IN [j \in 1..Len(sub) |->
                                    [path |-> <<PyStr(v.keys[i])>> \o sub[j].path, da |-> sub[j].da]]
                                 \o WalkK(i + 1)
         IN WalkK(1)

RECURSIVE Shape(_)
(* what the notebook displays of a value: labels, keys and array shapes *)
Shape(v) ==
    IF v.kind = "DataArray" THEN <<v.time, v.distance>>
    ELSE IF v.kind = "DataSequence"
    THEN [label |-> Label(v.name), keys |-> <<>>,
          vals |-> [i \in 1..Len(v.vals) |-> Shape(v.vals[i])]]
    ELSE IF v.kind = "DataMapping"
    THEN [label |-> Label(v.name), keys |-> v.keys,
          vals |-> [k \in Range(v.keys) |-> Shape(v.vals[k])]]
    ELSE v

RECURSIVE Depth(_)
(* number of DataMapping levels above the first non-mapping value; -1 when  *)
(* the levels below the keys of one mapping disagree                        *)
Depth(v) ==
    IF v.kind # "DataMapping" THEN 0
    ELSE IF v.keys = <<>> THEN 1
    ELSE LET ds == {Depth(v.vals[k]) : k \in Range(v.keys)}
         IN IF Cardinality(ds) = 1 /\ -1 \notin ds
            THEN 1 + (CHOOSE d \in ds : TRUE) ELSE -1

RECURSIVE BottomKinds(_)
(* the kinds of the values found right below the DataMapping levels *)
BottomKinds(v) ==
    IF v.kind # "DataMapping" THEN {v.kind}
    ELSE UNION {BottomKinds(v.vals[k]) : k \in Range(v.keys)}

RECURSIVE KeyPaths(_)
(* the key paths leading through the DataMapping levels to what lies below *)
KeyPaths(v) ==
    IF v.kind # "DataMapping" THEN {<<>>}
    ELSE UNION {{<<k>> \o p : p \in KeyPaths(v.vals[k])} : k \in Range(v.keys)}

RECURSIVE Follow(_, _)
(* c[k1][k2]... along a path of keys *)
Follow(v, path) ==
    IF path = <<>> \/ IsError(v) THEN v ELSE Follow(getitem(v, Head(path)), Tail(path))

(***************************************************************************)
(* Opening files.  A file on disk is described by the folders leading to   *)
(* it below the root of the pattern, its acquisition parametrization, its  *)
(* number of time samples and the time of its first sample.                *)
(***************************************************************************)

(* Combine, but telling acquisitions apart by their time step only *)
Combine_by_dt(files, src) ==
    LET dts == Distinct([i \in 1..Len(files) |-> Param[files[i].acq].dt])
        Of(d) == LET Same(f) == Param[f.acq].dt = d IN SelectSeq(files, Same)
    IN [i \in 1..Len(dts) |->
          LET fa == Of(dts[i])
          IN DataArray(fa[1].acq, SumSeq([j \in 1..Len(fa) |-> fa[j].nt]), fa[1].t0, src)]

(* files of one parametrization form one DataArray, concatenated in time *)
Combine(files, src) ==
    LET acqs == Distinct([i \in 1..Len(files) |-> files[i].acq])
        Of(a) == LET Same(f) == f.acq = a IN SelectSeq(files, Same)
    IN [i \in 1..Len(acqs) |->
          LET fa == Of(acqs[i])
          IN DataArray(acqs[i], SumSeq([j \in 1..Len(fa) |-> fa[j].nt]), fa[1].t0, src)]

RECURSIVE collect_squeeze(_, _, _, _)
(* collect, but a folder holding one acquisition gives the DataArray itself *)
collect_squeeze(files, fields, depth, id) ==
    IF Len(fields) = 1
    THEN LET das == Combine(files, Head(id))
         IN IF Len(das) = 1 THEN das[1] ELSE DataSequence(das, Head(fields), id)
    ELSE LET keys == Distinct([i \in 1..Len(files) |-> files[i].dirs[depth]])
             In(k) == LET Under(f) == f.dirs[depth] = k IN SelectSeq(files, Under)
         IN DataMapping(keys,
                        [k \in Range(keys) |->
                            collect_squeeze(In(k), Tail(fields), depth + 1, id \o <<k>>)],
                        Head(fields), id)

RECURSIVE collect(_, _, _, _)
(* one DataMapping level per folder field, a DataSequence for the file field *)
collect(files, fields, depth, id) ==
    IF Len(fields) = 1
    THEN DataSequence(Combine(files, Head(id)), Head(fields), id)
    ELSE LET keys == Distinct([i \in 1..Len(files) |-> files[i].dirs[depth]])
             In(k) == LET Under(f) == f.dirs[depth] = k IN SelectSeq(files, Under)
         IN DataMapping(keys,
                        [k \in Range(keys) |->
                            collect(In(k), Tail(fields), depth + 1, id \o <<k>>)],
                        Head(fields), id)

(* the files a pattern with these fields matches: one folder per {field} *)
Glob(files, fields) ==
    LET Deep(f) == Len(f.dirs) = Len(fields) - 1 IN SelectSeq(files, Deep)

(* xd.open_mfdatatree("root/{f1}/.../{fk}/[file].hdf5") *)
open_mfdatatree(files, fields, tag) ==
    collect(Glob(files, fields), fields, 1, <<tag>>)

(* xd.open_mfdataarray("root/*.hdf5"): one DataArray, or a DataSequence of  *)
(* one DataArray per parametrization when the files cannot be merged        *)
open_mfdataarray(files, tag) ==
    IF files = <<>> THEN Raised("FileNotFoundError")
    ELSE LET das == Combine(files, tag)
         IN IF Len(das) = 1 THEN das[1] ELSE DataSequence(das, "None", <<tag>>)

(***************************************************************************)
(* Label-based selection on the time axis.                                 *)
(***************************************************************************)
(* SelDataArray, but with the end of the slice left out as in a Python     *)
(* range                                                                   *)
SelDataArray_halfopen(da, a, b) ==
    LET first == Max(0, CeilDiv(a - da.t0, da.dt))
        last  == Min(da.time - 1, CeilDiv(b - da.t0, da.dt) - 1)
        n     == Max(0, last - first + 1)
    IN [da EXCEPT !.time = n, !.t0 = da.t0 + first * da.dt]

SelDataArray(da, a, b) ==
    LET first == Max(0, CeilDiv(a - da.t0, da.dt))
        last  == Min(da.time - 1, (b - da.t0) \div da.dt)
        n     == Max(0, last - first + 1)
    IN [da EXCEPT !.time = n, !.t0 = da.t0 + first * da.dt]

RECURSIVE sel_first(_, _, _, _)
(* sel, but reaching only the first element of a sequence *)
sel_first(v, a, b, tag) ==
    IF v.kind = "DataArray" THEN SelDataArray(v, a, b)
    ELSE IF v.kind = "DataSequence"
    THEN [v EXCEPT !.id = <<tag>> \o v.id,
                   !.vals = [i \in 1..Len(v.vals) |->
                               IF i = 1 THEN sel_first(v.vals[i], a, b, tag) ELSE v.vals[i]]]
    ELSE [v EXCEPT !.id = <<tag>> \o v.id,
                   !.vals = [k \in Range(v.keys) |-> sel_first(v.vals[k], a, b, tag)]]

RECURSIVE sel(_, _, _, _)
(* on a collection the selection is applied to each element *)
sel(v, a, b, tag) ==
    IF v.kind = "DataArray" THEN SelDataArray(v, a, b)
    ELSE IF v.kind = "DataSequence"
    THEN [v EXCEPT !.id = <<tag>> \o v.id,
                   !.vals = [i \in 1..Len(v.vals) |-> sel(v.vals[i], a, b, tag)]]
    ELSE [v EXCEPT !.id = <<tag>> \o v.id,
                   !.vals = [k \in Range(v.keys) |-> sel(v.vals[k], a, b, tag)]]

(* xs.get_sampling_interval(da, dim): seconds resp. metres; kept in ms and m *)
get_sampling_interval(da, dim) == IF dim = "time" THEN da.dt ELSE da.dx

(***************************************************************************)
(* The sample data of the tutorial, as far as the notebook shows it.       *)
(***************************************************************************)
FilesPerCable == 60

(* time of the first sample of SER/N after the common start, in ms: the    *)
(* recorded selections of SER/N are one sample short of those of SER/S     *)
SerNorthOffset == 8

Cables == << <<"CCN", "N">>, <<"SER", "N">>, <<"SER", "S">> >>

MulticableFiles ==
    [i \in 1..(Len(Cables) * FilesPerCable) |->
        LET c == Cables[((i - 1) \div FilesPerCable) + 1]
            j == (i - 1) % FilesPerCable
        IN File(c, IF c[1] = "CCN" THEN "ccn" ELSE "ser",
                j * FileDuration + (IF c = <<"SER", "N">> THEN SerNorthOffset ELSE 0))]

MultiAcqNames ==
    << 145505, 145515, 145525, 145535, 145545, 145555, 145605, 145615, 145625,
       145635, 150001, 150011, 150021, 150031, 150041, 150051, 150101, 150111,
       150121, 150131, 150141, 150151, 150201, 150211, 150221, 150231, 150241,
       150251, 150301, 150311, 150321, 150400, 150410, 150420, 150430, 150440,
       150450 >>

(* seconds of day of a file named HHMMSS *)
Seconds(n) == (n \div 10000) * 3600 + ((n \div 100) % 100) * 60 + (n % 100)

RECURSIVE AcqIndex(_)
(* a new acquisition starts where the files stop following each other *)
AcqIndex(i) ==
    IF i = 1 THEN 1
    ELSE AcqIndex(i - 1)
         + (IF (Seconds(MultiAcqNames[i]) - Seconds(MultiAcqNames[i - 1])) * 1000 = FileDuration
            THEN 0 ELSE 1)

MultiAcqFiles ==
    [i \in 1..Len(MultiAcqNames) |->
        File(<<>>, <<"acq0", "acq1", "acq2">>[AcqIndex(i)],
             (Seconds(MultiAcqNames[i]) - Seconds(MultiAcqNames[1])) * 1000)]

(* the time labels used by the notebook, in ms after 2023-11-03T12:20:06 *)
T_12_23_35 == 209000
T_12_24_00 == 234000
T_12_26_40 == 394000
T_12_27_50 == 464000

(***************************************************************************)
(* State after "git clone", before anything was run.                       *)
(***************************************************************************)
NumCells == [new |-> 14, old |-> 11]
Cells == 1..14
(* the cells that open files, and what an open call found on disk: the     *)
(* number of files matched and the largest number of different coordinate  *)
(* shapes among the files of one folder (the files that are put together)  *)
OpenCells == {2, 13}
NotOpened == [files |-> -1, shapes |-> -1]
ShapesIn(files, d) ==
    Cardinality({<<Param[f.acq].dt, Param[f.acq].nd>> : f \in {g \in Range(files) : g.dirs = d}})
Found(files) ==
    [files |-> Len(files),
     shapes |-> IF files = <<>> THEN 0
                ELSE LET n == {ShapesIn(files, f.dirs) : f \in Range(files)}
                     IN CHOOSE m \in n : \A x \in n : x <= m]
Names == {"np", "xd", "dc", "dc_set", "node", "cable", "da", "dc_sel",
          "xs", "acq", "dt", "dx"}

FreshClone ==
    [data |-> FALSE, zips |-> 0, outputs |-> [exists |-> FALSE, files |-> {}],
     tracked |-> "HEAD"]

FreshKernel ==
    /\ ns = [n \in Names |-> Unbound]
    /\ status = [i \in Cells |-> "idle"]
    /\ execution_count = [i \in Cells |-> 0]
    /\ counter = 0
    /\ pc = 0
    /\ out = [i \in Cells |-> None]
    /\ opened = [i \in OpenCells |-> NotOpened]

NoCall == [op |-> "none"]

Init ==
    /\ version \in {"new", "old"}
    /\ fs = FreshClone
    /\ FreshKernel
    /\ call = NoCall
    /\ ret = None

(***************************************************************************)
(* Library calls on their own: the arguments are drawn from bounded sets   *)
(* and the call is applied to them.  They are tried in a fresh clone, apart*)
(* from the notebook run.                                                  *)
(***************************************************************************)
Apart == fs = FreshClone /\ counter = 0 /\ version = "new"
First == Apart /\ call = NoCall

notebook == <<version, fs, ns, status, execution_count, counter, pc, out, opened>>

Folders(k) ==
    IF k = 0 THEN {<<>>}
    ELSE IF k = 1 THEN {<<"CCN">>, <<"SER">>}
    ELSE {<<"CCN", "N">>, <<"CCN", "S">>, <<"SER", "N">>, <<"SER", "S">>}

AcqOrder == <<"acq0", "acq1", "acq2">>

(* the files of a recording in time order, below folders of depth k: the    *)
(* parametrization changes along time and every file lasts FileDuration     *)
Disks(k) ==
    UNION {{[i \in 1..n |-> File(d[i], AcqOrder[a[i]], (i - 1) * FileDuration)] :
               d \in [1..n -> Folders(k)],
               a \in {x \in [1..n -> 1..Len(AcqOrder)] :
                        \A i \in 1..(n - 1) : x[i] <= x[i + 1]}} :
           n \in 0..MaxFiles}

FieldsOf(k) ==
    IF k = 1 THEN <<"cable", "acquisition">> ELSE <<"node", "cable", "acquisition">>

Slices ==
    {<<T_12_23_35, T_12_24_00>>, <<T_12_26_40, T_12_27_50>>,
     <<7, 15000>>, <<-5000, 7>>, <<12000, 25000>>, <<700000, 800000>>}

SampleArrays == {DataArray("acq0", 625, 0, "lib"), DataArray("acq1", 2000, 10000, "lib")}

SampleValues ==
    SampleArrays \cup
    {DataSequence(<<DataArray("acq0", 625, 0, "lib")>>, "acquisition", <<"s">>),
     DataMapping(<<"N">>, [k \in {"N"} |-> DataArray("acq2", 1000, 0, "lib")], "cable", <<"m">>)}

SampleKeys == <<"id_000000", "id_000001", "id_000002">>

Lists == UNION {[1..n -> SampleArrays] : n \in 0..MaxFiles}

Dicts ==
    UNION {{[keys |-> SubSeq(SampleKeys, 1, n), vals |-> f] :
               f \in [{SampleKeys[i] : i \in 1..n} -> SampleValues]} : n \in 0..2}

LibOpenTree ==
    /\ First
    /\ \E k \in 1..2 :
         \E files \in Disks(k) \cup (IF k = 2 THEN {MulticableFiles} ELSE {}) :
            /\ call' = [op |-> "open_mfdatatree", files |-> files, fields |-> FieldsOf(k)]
            /\ ret' = open_mfdatatree(files, FieldsOf(k), "lib")
    /\ UNCHANGED notebook

LibOpenArray ==
    /\ First
    /\ \E files \in Disks(0) \cup {MultiAcqFiles} :
         /\ call' = [op |-> "open_mfdataarray", files |-> files]
         /\ ret' = open_mfdataarray(files, "lib")
    /\ UNCHANGED notebook

LibDataCollection ==
    /\ First
    /\ \E x \in {PyList(l) : l \in Lists} \cup {PyDict(d.keys, d.vals) : d \in Dicts} :
         \E name \in {"event", "None"} :
            /\ call' = [op |-> "DataCollection", x |-> x, name |-> name]
            /\ ret' = DataCollection(x, name, <<"lib">>)
    /\ UNCHANGED notebook

LibSel ==
    /\ Apart
    /\ call.op \in {"open_mfdatatree", "open_mfdataarray", "DataCollection"}
    /\ IsCollection(ret) \/ ret.kind = "DataArray"
    /\ \E s \in Slices :
         /\ call' = [op |-> "sel", a |-> s[1], b |-> s[2]]
         /\ ret' = sel(ret, s[1], s[2], "sel")
    /\ UNCHANGED notebook

Mutable == call.op \in {"DataCollection", "setitem", "update", "append"}

LibSetItem ==
    /\ Apart /\ Mutable
    /\ ret.kind = "DataMapping"
    /\ \E i \in 1..Len(SampleKeys), v \in SampleValues :
         /\ call' = [op |-> "setitem", k |-> SampleKeys[i], v |-> v]
         /\ ret' = setitem(ret, SampleKeys[i], v)
    /\ UNCHANGED notebook

LibUpdate ==
    /\ Apart /\ Mutable
    /\ ret.kind = "DataMapping"
    /\ \E i \in 1..Len(SampleKeys), v \in SampleValues :
         /\ call' = [op |-> "update", k |-> SampleKeys[i], v |-> v]
         /\ ret' = update(ret, SampleKeys[i], v)
    /\ UNCHANGED notebook

LibAppend ==
    /\ Apart /\ Mutable
    /\ ret.kind = "DataSequence"
    /\ Len(ret.vals) <= MaxFiles
    /\ \E x \in SampleArrays :
         /\ call' = [op |-> "append", v |-> x]
         /\ ret' = append(ret, x)
    /\ UNCHANGED notebook

(***************************************************************************)
(* The README's shell steps on the working folder.                         *)
(***************************************************************************)
Shell == call = NoCall /\ \A i \in Cells : status[i] # "running"

(* wget: a second download is saved next to the first (data.zip.1) *)
Wget(f) == [f EXCEPT !.zips = f.zips + 1]

(* unzip data.zip: extracts data/ when the archive is there *)
Unzip(f) == IF f.zips > 0 THEN [f EXCEPT !.data = TRUE] ELSE f

(* rm <zip>, in the earlier README only *)
RmZip(f) == [f EXCEPT !.zips = 0]

(* rm outputs: refuses a directory, so nothing is removed *)
RmRfOutputs_skip(f) == f

(* rm -rf outputs *)
RmRfOutputs(f) == [f EXCEPT !.outputs = [exists |-> FALSE, files |-> {}]]

(* mkdir -p outputs: creates the directory, keeps an existing one as it is *)
MkdirPOutputs(f) ==
    IF f.outputs.exists THEN f ELSE [f EXCEPT !.outputs = [exists |-> TRUE, files |-> {}]]

(* the data-setup step after the download *)
SetupStep(f, v) ==
    LET unzipped == Unzip(f)
        cleaned  == IF v = "old" THEN RmZip(unzipped) ELSE unzipped
    IN MkdirPOutputs(RmRfOutputs(cleaned))

(* git reset --hard HEAD: tracked files back to the commit, the rest stays *)
GitResetHard(f) == [f EXCEPT !.tracked = "HEAD"]

kernel == <<ns, status, execution_count, counter, pc, out, opened>>

Download ==
    /\ Shell
    /\ fs.zips < MaxDownloads
    /\ fs' = Wget(fs)
    /\ UNCHANGED <<version, kernel, call, ret>>

Setup ==
    /\ Shell
    /\ fs' = SetupStep(fs, version)
    /\ UNCHANGED <<version, kernel, call, ret>>

GitReset ==
    /\ Shell
    /\ fs' = GitResetHard(fs)
    /\ UNCHANGED <<version, kernel, call, ret>>

(* Jupyter writes the outputs and execution counts into the .ipynb *)
SaveNotebook ==
    /\ Shell
    /\ counter > 0
    /\ fs' = [fs EXCEPT !.tracked = "modified"]
    /\ UNCHANGED <<version, kernel, call, ret>>

RestartKernel ==
    /\ Shell
    /\ counter > 0
    /\ ns' = [n \in Names |-> Unbound]
    /\ status' = [i \in Cells |-> "idle"]
    /\ execution_count' = [i \in Cells |-> 0]
    /\ counter' = 0
    /\ pc' = 0
    /\ out' = [i \in Cells |-> None]
    /\ opened' = [i \in OpenCells |-> NotOpened]
    /\ UNCHANGED <<version, fs, call, ret>>

(***************************************************************************)
(* The code cells.  A cell body runs its statements in order; the first    *)
(* exception ends it, and what was bound before stays bound.               *)
(***************************************************************************)
Done(n, f, o) == [ok |-> TRUE, ns |-> n, fs |-> f, out |-> o, found |-> NotOpened]
Fail(n, f) == [ok |-> FALSE, ns |-> n, fs |-> f, out |-> None, found |-> NotOpened]
Opened(r, files) == [r EXCEPT !.found = Found(files)]

Bound(n, x) == n[x].kind # "Unbound"

(* c[k] where evaluating c may already have raised *)
G(c, k) == IF IsError(c) THEN c ELSE getitem(c, k)

MutateNs(n, id, mut) == [x \in Names |-> Mutate(n[x], id, mut)]

TreeFields == <<"node", "cable", "acquisition">>

(* to_netcdf(path under outputs/): needs the directory *)
to_netcdf(f, name) ==
    IF f.outputs.exists
    THEN [f EXCEPT !.outputs.files = f.outputs.files \cup {name}]
    ELSE Raised("FileNotFoundError")

Body1(n, f) == Done([n EXCEPT !.np = Module, !.xd = Module], f, None)

(* raises: whether the library raises when the pattern matches no file *)
Body2(n, f, raises) ==
    IF ~Bound(n, "xd") THEN Fail(n, f)
    ELSE LET files == IF f.data THEN MulticableFiles ELSE <<>>
             r == IF Glob(files, TreeFields) = <<>> /\ raises
                  THEN Raised("FileNotFoundError")
                  ELSE open_mfdatatree(files, TreeFields, "c2")
         IN Opened(IF IsError(r) THEN Fail(n, f) ELSE Done([n EXCEPT !.dc = r], f, r),
                   Glob(files, TreeFields))

Body3(n, f) ==
    IF ~Bound(n, "dc") THEN Fail(n, f)
    ELSE LET r == G(G(G(n.dc, "CCN"), "N"), 0)
         IN IF IsError(r) THEN Fail(n, f) ELSE Done(n, f, r)

Body4(n, f) ==
    IF ~Bound(n, "dc") THEN Fail(n, f)
    ELSE
    LET n1   == [n EXCEPT !.dc_set = deepcopy(n.dc, "c4")]
        rhs2 == G(G(n1.dc, "CCN"), "N")
        tgt2 == G(n1.dc_set, "CCN")
    IN IF IsError(rhs2) \/ IsError(tgt2) THEN Fail(n1, f)
       ELSE
       LET n2   == MutateNs(n1, tgt2.id,
                            [op |-> "setitem", k |-> "S", v |-> copy(rhs2, "c4a")])
           obj3 == G(G(n2.dc_set, "CCN"), "S")
           arg3 == G(G(G(n2.dc, "CCN"), "N"), 0)
       IN IF IsError(obj3) \/ IsError(arg3) THEN Fail(n2, f)
          ELSE
          LET n3   == MutateNs(n2, obj3.id, [op |-> "append", v |-> copy(arg3, "c4b")])
              arg4 == G(n3.dc, "CCN")
          IN IF IsError(arg4) THEN Fail(n3, f)
             ELSE
             LET n4 == MutateNs(n3, n3.dc_set.id,
                                [op |-> "update", k |-> "CAL", v |-> copy(arg4, "c4c")])
             IN Done(n4, f, n4.dc_set)

(***************************************************************************)
(* Iterating.  A DataMapping is iterated like a dict, over its keys; a     *)
(* DataSequence like a list, over its elements in index order.             *)
(***************************************************************************)
(* Iter, but going through a sequence from its last element to its first *)
Iter_reversed(c) ==
    IF c.kind = "DataMapping" THEN [x \in 1..Len(c.keys) |-> PyStr(c.keys[x])]
    ELSE [x \in 1..Len(c.vals) |-> c.vals[Len(c.vals) + 1 - x]]

(* what "for x in c" binds x to, in order *)
Iter(c) ==
    IF c.kind = "DataMapping" THEN [x \in 1..Len(c.keys) |-> PyStr(c.keys[x])]
    ELSE c.vals

(* a collection the three nested loops can go through: two levels of       *)
(* mappings above sequences of arrays                                      *)
IsTree3(c) ==
    /\ c.kind = "DataMapping"
    /\ \A k1 \in Range(c.keys) :
          /\ c.vals[k1].kind = "DataMapping"
          /\ \A k2 \in Range(c.vals[k1].keys) :
                /\ c.vals[k1].vals[k2].kind = "DataSequence"
                /\ \A x \in 1..Len(c.vals[k1].vals[k2].vals) :
                      c.vals[k1].vals[k2].vals[x].kind = "DataArray"

(* the three loops at their start: i, j, k are the places of the three     *)
(* iterators, visits the runs of the loop body so far                      *)
InitLoop(node, cable, da) ==
    [i |-> 1, j |-> 1, k |-> 1, visits |-> <<>>, node |-> node, cable |-> cable, da |-> da]

LoopDone(dc, st) == st.i > Len(Iter(dc))

(* one step of "for node in dc: for cable in dc[node]: for da in           *)
(* dc[node][cable]: ...": a run of the body, or an inner iterator that is  *)
(* exhausted and hands over to the loop around it                          *)
LoopStep(dc, st) ==
    IF LoopDone(dc, st) THEN st
    ELSE LET node   == Iter(dc)[st.i]
             cables == Iter(getitem(dc, node.value))
         IN IF st.j > Len(cables)
            THEN [st EXCEPT !.i = @ + 1, !.j = 1, !.k = 1, !.node = node]
            ELSE LET cable == cables[st.j]
                     das   == Iter(getitem(getitem(dc, node.value), cable.value))
                 IN IF st.k > Len(das)
                    THEN [st EXCEPT !.j = @ + 1, !.k = 1, !.node = node, !.cable = cable]
                    ELSE [st EXCEPT !.k = @ + 1, !.node = node, !.cable = cable,
                                    !.da = das[st.k],
                                    !.visits = Append(@, [node |-> node, cable |-> cable,
                                                          da |-> das[st.k]])]

RECURSIVE RunLoop(_, _)
(* the loops run until the outer iterator is exhausted *)
RunLoop(dc, st) == IF LoopDone(dc, st) THEN st ELSE RunLoop(dc, LoopStep(dc, st))

(* the loops on a tree opened by the library, one step at a time *)
LibFor ==
    /\ Apart
    /\ call.op = "open_mfdatatree"
    /\ IsTree3(ret)
    /\ call' = [op |-> "for", st |-> InitLoop(Unbound, Unbound, Unbound)]
    /\ UNCHANGED <<ret, notebook>>

LibForStep ==
    /\ Apart
    /\ call.op = "for"
    /\ ~LoopDone(ret, call.st)
    /\ call' = [call EXCEPT !.st = LoopStep(ret, call.st)]
    /\ UNCHANGED <<ret, notebook>>

(* the loop variables stay bound to the last values they took *)
Body5(n, f) ==
    IF ~Bound(n, "dc") \/ ~IsTree3(n.dc) THEN Fail(n, f)
    ELSE LET st == RunLoop(n.dc, InitLoop(n.node, n.cable, n.da))
         IN Done([n EXCEPT !.node = st.node, !.cable = st.cable, !.da = st.da], f, None)

Body6(n, f) ==
    IF ~Bound(n, "dc") THEN Fail(n, f)
    ELSE LET r == sel(n.dc, T_12_26_40, T_12_27_50, "c6")
         IN Done([n EXCEPT !.dc_sel = r], f, r)

(* cell 7 written as dc = dc.to_netcdf(...): binds the call's None *)
Body7_rebind(n, f) ==
    IF ~Bound(n, "dc") THEN Fail(n, f)
    ELSE LET w == to_netcdf(f, "multicable.nc")
         IN IF "kind" \in DOMAIN w THEN Fail(n, f) ELSE Done([n EXCEPT !.dc = None], w, None)

Body7(n, f) ==
    IF ~Bound(n, "dc") THEN Fail(n, f)
    ELSE LET w == to_netcdf(f, "multicable.nc")
         IN IF "kind" \in DOMAIN w THEN Fail(n, f) ELSE Done(n, w, None)

Body8(n, f) ==
    IF ~Bound(n, "dc") THEN Fail(n, f)
    ELSE LET r == G(G(G(n.dc, "SER"), "N"), 0)
         IN IF IsError(r) THEN Fail(n, f)
            ELSE LET n1 == [n EXCEPT !.da = r]
                     w  == to_netcdf(f, "singlecable.nc")
                 IN IF "kind" \in DOMAIN w THEN Fail(n1, f) ELSE Done(n1, w, None)

EventKeys == <<"id_000000", "id_000001">>

TwoEvents(v, tagA, tagB) ==
    [k \in Range(EventKeys) |->
        IF k = EventKeys[1] THEN sel(v, T_12_23_35, T_12_24_00, tagA)
        ELSE sel(v, T_12_26_40, T_12_27_50, tagB)]

Body9(n, f) ==
    IF ~Bound(n, "xd") \/ n.da.kind # "DataArray" THEN Fail(n, f)
    ELSE LET ev == TwoEvents(n.da, "c9a", "c9b")
         IN Done(n, f, DataCollection(PyList(<<ev[EventKeys[1]], ev[EventKeys[2]]>>),
                                      "event", <<"c9">>))

Body10(n, f) ==
    IF ~Bound(n, "xd") \/ n.da.kind # "DataArray" THEN Fail(n, f)
    ELSE Done(n, f, DataCollection(PyDict(EventKeys, TwoEvents(n.da, "c10a", "c10b")),
                                   "event", <<"c10">>))

Body11(n, f) ==
    IF ~Bound(n, "xd") \/ ~Bound(n, "dc") THEN Fail(n, f)
    ELSE Done(n, f, DataCollection(PyDict(EventKeys, TwoEvents(n.dc, "c11a", "c11b")),
                                   "event", <<"c11">>))

(* !ls data/gps_multiacq: prints the names; a shell error does not raise *)
Body12(n, f) ==
    Done(n, f, [kind |-> "stdout", lines |-> IF f.data THEN MultiAcqNames ELSE <<>>])

(* cell 13 with the failure swallowed: dc is bound to None *)
Body13_swallow(n, f) ==
    IF ~Bound(n, "xd") THEN Fail(n, f)
    ELSE LET files == IF f.data THEN MultiAcqFiles ELSE <<>>
             r == open_mfdataarray(files, "c13")
         IN Opened(IF IsError(r) THEN Done([n EXCEPT !.dc = None], f, None)
                   ELSE Done([n EXCEPT !.dc = r], f, r),
                   files)

Body13(n, f) ==
    IF ~Bound(n, "xd") THEN Fail(n, f)
    ELSE LET files == IF f.data THEN MultiAcqFiles ELSE <<>>
             r == open_mfdataarray(files, "c13")
         IN Opened(IF IsError(r) THEN Fail(n, f) ELSE Done([n EXCEPT !.dc = r], f, r),
                   files)

(* one printed row per element of dc *)
Body14(n, f) ==
    LET n1 == [n EXCEPT !.xs = Module]
    IN IF ~Bound(n1, "dc") THEN Fail(n1, f)
       ELSE IF n1.dc.kind = "DataMapping"
       THEN IF n1.dc.keys = <<>> THEN Done(n1, f, [kind |-> "stdout", lines |-> <<>>])
            ELSE Fail([n1 EXCEPT !.acq = PyInt(0), !.da = PyStr(n1.dc.keys[1])], f)
       ELSE IF n1.dc.kind # "DataSequence" THEN Fail(n1, f)
       ELSE LET das  == n1.dc.vals
                rows == [i \in 1..Len(das) |->
                           <<i - 1, get_sampling_interval(das[i], "time"),
                             get_sampling_interval(das[i], "distance")>>]
            IN IF das = <<>> THEN Done(n1, f, [kind |-> "stdout", lines |-> <<>>])
               ELSE LET l == das[Len(das)]
                    IN Done([n1 EXCEPT !.acq = PyInt(Len(das) - 1), !.da = l,
                                       !.dt = PyInt(get_sampling_interval(l, "time")),
                                       !.dx = PyInt(get_sampling_interval(l, "distance"))],
                            f, [kind |-> "stdout", lines |-> rows])

(* StartCell, but not waiting for the running cell to finish *)
StartCell_eager(i) ==
    /\ call = NoCall
    /\ i = pc + 1
    /\ i <= NumCells[version]
    /\ status' = [status EXCEPT ![i] = "running"]
    /\ counter' = counter + 1
    /\ execution_count' = [execution_count EXCEPT ![i] = counter + 1]
    /\ pc' = i
    /\ UNCHANGED <<version, fs, ns, out, opened, call, ret>>

(* the kernel takes the next cell of the document when it is idle *)
StartCell(i) ==
    /\ call = NoCall
    /\ \A j \in Cells : status[j] # "running"
    /\ i = pc + 1
    /\ i <= NumCells[version]
    /\ status' = [status EXCEPT ![i] = "running"]
    /\ counter' = counter + 1
    /\ execution_count' = [execution_count EXCEPT ![i] = counter + 1]
    /\ pc' = i
    /\ UNCHANGED <<version, fs, ns, out, opened, call, ret>>

Finish(i, r) ==
    /\ status[i] = "running"
    /\ status' = [status EXCEPT ![i] = IF r.ok THEN "ok" ELSE "error"]
    /\ ns' = r.ns
    /\ fs' = r.fs
    /\ out' = [out EXCEPT ![i] = r.out]
    /\ opened' = IF i \in OpenCells THEN [opened EXCEPT ![i] = r.found] ELSE opened
    /\ UNCHANGED <<version, execution_count, counter, pc, call, ret>>

Start == \E i \in Cells : StartCell(i)
Cell1 == Finish(1, Body1(ns, fs))
Cell2 == \E raises \in BOOLEAN : Finish(2, Body2(ns, fs, raises))
Cell3 == Finish(3, Body3(ns, fs))
Cell4 == Finish(4, Body4(ns, fs))
Cell5 == Finish(5, Body5(ns, fs))
Cell6 == Finish(6, Body6(ns, fs))
Cell7 == Finish(7, Body7(ns, fs))
Cell8 == Finish(8, Body8(ns, fs))
Cell9 == Finish(9, Body9(ns, fs))
Cell10 == Finish(10, Body10(ns, fs))
Cell11 == Finish(11, Body11(ns, fs))
Cell12 == Finish(12, Body12(ns, fs))
Cell13 == Finish(13, Body13(ns, fs))
Cell14 == Finish(14, Body14(ns, fs))

Next ==
    \/ LibOpenTree
    \/ LibOpenArray
    \/ LibDataCollection
    \/ LibSel
    \/ LibSetItem
    \/ LibUpdate
    \/ LibAppend
    \/ LibFor
    \/ LibForStep
    \/ Download
    \/ Setup
    \/ GitReset
    \/ SaveNotebook
    \/ RestartKernel
    \/ Start
    \/ Cell1
    \/ Cell2
    \/ Cell3
    \/ Cell4
    \/ Cell5
    \/ Cell6
    \/ Cell7
    \/ Cell8
    \/ Cell9
    \/ Cell10
    \/ Cell11
    \/ Cell12
    \/ Cell13
    \/ Cell14

(***************************************************************************)
(* What the notebook recorded when it was run: the displayed results and   *)
(* the execution counts of its code cells.                                 *)
(***************************************************************************)
RSeq(label, shapes) == [label |-> label, keys |-> <<>>, vals |-> shapes]
RMap(label, keys, vals) == [label |-> label, keys |-> keys, vals |-> vals]

RTree(ccnN, serN, serS) ==
    RMap("Node", <<"CCN", "SER">>,
         [CCN |-> RMap("Cable", <<"N">>, [N |-> RSeq("Acquisition", <<ccnN>>)]),
          SER |-> RMap("Cable", <<"N", "S">>,
                       [N |-> RSeq("Acquisition", <<serN>>),
                        S |-> RSeq("Acquisition", <<serS>>)])])

Recorded2 == RTree(<<37500, 9998>>, <<37500, 10000>>, <<37500, 10000>>)

Recorded3 == [shape |-> <<37500, 9998>>, first |-> 0, last |-> 599984]

Recorded4 ==
    RMap("Node", <<"CCN", "SER", "CAL">>,
         [CCN |-> RMap("Cable", <<"N", "S">>,
                       [N |-> RSeq("Acquisition", << <<37500, 9998>> >>),
                        S |-> RSeq("Acquisition", << <<37500, 9998>>, <<37500, 9998>> >>)]),
          SER |-> RMap("Cable", <<"N", "S">>,
                       [N |-> RSeq("Acquisition", << <<37500, 10000>> >>),
                        S |-> RSeq("Acquisition", << <<37500, 10000>> >>)]),
          CAL |-> RMap("Cable", <<"N">>,
                       [N |-> RSeq("Acquisition", << <<37500, 9998>> >>)])])

Recorded6 == RTree(<<4376, 9998>>, <<4375, 10000>>, <<4376, 10000>>)

Recorded9 == RSeq("Event", << <<1563, 10000>>, <<4375, 10000>> >>)

Recorded10 ==
    RMap("Event", EventKeys,
         [id_000000 |-> <<1563, 10000>>, id_000001 |-> <<4375, 10000>>])

Recorded11 ==
    RMap("Event", EventKeys,
         [id_000000 |-> RTree(<<1563, 9998>>, <<1563, 10000>>, <<1563, 10000>>),
          id_000001 |-> RTree(<<4376, 9998>>, <<4375, 10000>>, <<4376, 10000>>)])

Recorded13 ==
    RSeq("Collection", << <<6250, 9998>>, <<21000, 6666>>, <<6000, 24994>> >>)

Recorded14 == << <<0, 16, 15>>, <<1, 10, 15>>, <<2, 10, 4>> >>

RecordedExecutionCount ==
    [new |-> <<1, 2, 3, 4, 5, 6, 7, 8, 9, 10, 11, 12, 13, 14>>,
     old |-> <<1, 2, 3, 4, 5, 6, 7, 8, 9, 10, 11>>]

Ran(i) == status[i] \in {"ok", "error"}

(* cell i ended without error on the extracted sample data *)
OnData(i) == status[i] = "ok" /\ IsCollection(out[i]) /\ Leaves(out[i]) # <<>>

Transcript ==
    /\ OnData(2) => Shape(out[2]) = Recorded2
    /\ status[3] = "ok" =>
          /\ Shape(out[3]) = Recorded3.shape
          /\ out[3].t0 = Recorded3.first
          /\ out[3].t0 + (out[3].time - 1) * out[3].dt = Recorded3.last
    /\ OnData(4) => Shape(out[4]) = Recorded4
    /\ OnData(6) => Shape(out[6]) = Recorded6
    /\ OnData(9) => Shape(out[9]) = Recorded9
    /\ OnData(10) => Shape(out[10]) = Recorded10
    /\ OnData(11) => Shape(out[11]) = Recorded11
    /\ OnData(13) => Shape(out[13]) = Recorded13
    /\ (status[14] = "ok" /\ status[13] = "ok") => out[14].lines = Recorded14
    /\ (status[12] = "ok" /\ out[12].lines # <<>>) => Len(out[12].lines) = 37

(***************************************************************************)
(* Properties.                                                             *)
(***************************************************************************)
RECURSIVE Skeleton(_)
(* a value without its arrays: nesting, labels, keys and sequence lengths *)
Skeleton(v) ==
    IF v.kind = "DataSequence"
    THEN [label |-> Label(v.name), keys |-> <<>>,
          vals |-> [i \in 1..Len(v.vals) |-> Skeleton(v.vals[i])]]
    ELSE IF v.kind = "DataMapping"
    THEN [label |-> Label(v.name), keys |-> v.keys,
          vals |-> [k \in Range(v.keys) |-> Skeleton(v.vals[k])]]
    ELSE [label |-> v.kind, keys |-> <<>>, vals |-> <<>>]

(* t is the tree of these files for these fields: one DataMapping level per *)
(* folder field, keyed by the folders on disk, DataSequences of DataArrays  *)
(* below, and nothing else                                                  *)
TreeOf(t, files, fields) ==
    /\ Depth(t) = Len(fields) - 1
    /\ BottomKinds(t) = {"DataSequence"}
    /\ KeyPaths(t) = {f.dirs : f \in Range(files)}
    /\ \A p \in KeyPaths(t) :
          /\ \A j \in 0..(Len(p) - 1) :
                /\ Follow(t, SubSeq(p, 1, j)).kind = "DataMapping"
                /\ Follow(t, SubSeq(p, 1, j)).name = fields[j + 1]
          /\ Follow(t, p).name = fields[Len(fields)]
          /\ Follow(t, p).vals # <<>>
          /\ \A i \in 1..Len(Follow(t, p).vals) : Follow(t, p).vals[i].kind = "DataArray"

(* C1: open_mfdatatree on a pattern of k folder fields and one file field   *)
(* returns exactly k nested DataMapping levels keyed by the folders found   *)
(* on disk, with DataSequences of DataArrays as innermost values; for       *)
(* {node}/{cable}/[acquisition] on the sample data this is                  *)
(* Node -> Cable -> Acquisition with keys CCN:{N}, SER:{N,S}.               *)
C1_TreeShape ==
    /\ (call.op = "open_mfdatatree" /\ Glob(call.files, call.fields) # <<>>)
          => TreeOf(ret, Glob(call.files, call.fields), call.fields)
    /\ OnData(2) =>
          /\ TreeOf(out[2], MulticableFiles, TreeFields)
          /\ Shape(out[2]) = Recorded2

C1_Witness ==
    /\ OnData(2)
    /\ Depth(out[2]) = 2
    /\ KeyPaths(out[2]) = {<<"CCN", "N">>, <<"SER", "N">>, <<"SER", "S">>}

(* C2: a DataMapping behaves as a dict and a DataSequence as a list: after  *)
(* m[k] = v or m.update({k: v}), m[k] is v, the other keys keep their       *)
(* values and the keys are the former keys plus k in insertion order; after *)
(* s.append(x) the former elements are followed by x.  Cell 4 of the        *)
(* tutorial yields CCN:{N:[1], S:[2]}, SER:{N:[1], S:[1]}, CAL:{N:[1]} and  *)
(* leaves dc as it was.                                                     *)
C2_DictList ==
    [][/\ call'.op \in {"setitem", "update"} =>
             /\ getitem(ret', call'.k) = call'.v
             /\ ret'.keys = IF HasKey(ret, call'.k) THEN ret.keys
                            ELSE Append(ret.keys, call'.k)
             /\ DOMAIN ret'.vals = Range(ret'.keys)
             /\ \A x \in Range(ret.keys) \ {call'.k} : getitem(ret', x) = getitem(ret, x)
       /\ call'.op = "append" =>
             /\ Len(ret'.vals) = Len(ret.vals) + 1
             /\ SubSeq(ret'.vals, 1, Len(ret.vals)) = ret.vals
             /\ ret'.vals[Len(ret'.vals)] = call'.v
       /\ (status[4] = "running" /\ OnData(4)') =>
             /\ Shape(out'[4]) = Recorded4
             /\ ns'.dc = ns.dc
             /\ ns'.dc_set = out'[4]
      ]_vars

C2_Witness ==
    /\ OnData(4)
    /\ Len(Follow(out[4], <<"CCN", "S">>).vals) = 2
    /\ Len(Follow(out[4], <<"CCN", "N">>).vals) = 1
    /\ out[4].keys = <<"CCN", "SER", "CAL">>

(* after is before with the time selection applied to each leaf *)
SelOf(before, after, a, b) ==
    /\ Skeleton(after) = Skeleton(before)
    /\ Len(Leaves(after)) = Len(Leaves(before))
    /\ \A i \in 1..Len(Leaves(before)) :
          /\ Leaves(after)[i].path = Leaves(before)[i].path
          /\ Leaves(after)[i].da = SelDataArray(Leaves(before)[i].da, a, b)

(* C3: sel on a collection applies the selection to each element: the       *)
(* result has the nesting, keys and sequence lengths of the collection and  *)
(* each leaf is the selection of the corresponding leaf; the SER/N leaf of  *)
(* dc.sel(...) has the 1563 resp. 4375 time samples of da.sel(...).         *)
C3_SelEach ==
    [][/\ call'.op = "sel" => SelOf(ret, ret', call'.a, call'.b)
       /\ (status[6] = "running" /\ status'[6] = "ok") =>
             SelOf(ns.dc, out'[6], T_12_26_40, T_12_27_50)
       /\ (status[11] = "running" /\ status'[11] = "ok") =>
             /\ SelOf(ns.dc, out'[11].vals[EventKeys[1]], T_12_23_35, T_12_24_00)
             /\ SelOf(ns.dc, out'[11].vals[EventKeys[2]], T_12_26_40, T_12_27_50)
             /\ (OnData(9) /\ OnData(11)') =>
                   \A e \in 1..2 :
                      /\ Shape(Follow(out'[11], <<EventKeys[e], "SER", "N", 0>>))
                            = Shape(getitem(out[9], e - 1))
                      /\ getitem(out[9], e - 1).time = <<1563, 4375>>[e]
      ]_vars

C3_Witness ==
    /\ call.op = "sel"
    /\ ret.kind = "DataMapping"
    /\ Len(Leaves(ret)) >= 2
    /\ \E i \in 1..Len(Leaves(ret)) : Leaves(ret)[i].da.time > 0

FilesOf(files, da) ==
    LET Same(f) == Param[f.acq].dt = da.dt /\ Param[f.acq].nd = da.distance
    IN SelectSeq(files, Same)

(* the arrays of files: no two share a shape, every file is in exactly one, *)
(* and the files of one parametrization are in the same one                 *)
Grouped(das, files) ==
    /\ \A i, j \in 1..Len(das) :
          i # j => <<das[i].dt, das[i].distance>> # <<das[j].dt, das[j].distance>>
    /\ \A f \in Range(files) :
          Cardinality({i \in 1..Len(das) :
                          das[i].dt = Param[f.acq].dt /\ das[i].distance = Param[f.acq].nd}) = 1
    /\ \A i \in 1..Len(das) :
          LET fa == FilesOf(files, das[i])
          IN das[i].time = SumSeq([j \in 1..Len(fa) |-> fa[j].nt])
    /\ SumSeq([i \in 1..Len(das) |-> das[i].time])
          = SumSeq([j \in 1..Len(files) |-> files[j].nt])

C7_Constructor ==
    /\ call.op = "DataCollection" =>
          /\ ret.name = call.name
          /\ call.name = "event" => Label(ret.name) = "Event"
          /\ call.x.type = "list" =>
                /\ ret.kind = "DataSequence"
                /\ Len(ret.vals) = Len(call.x.vals)
                /\ \A i \in 1..Len(call.x.vals) : getitem(ret, i - 1) = call.x.vals[i]
          /\ call.x.type = "dict" =>
                /\ ret.kind = "DataMapping"
                /\ ret.keys = call.x.keys
                /\ \A k \in Range(call.x.keys) : getitem(ret, k) = call.x.vals[k]
    /\ OnData(9) => out[9].kind = "DataSequence" /\ Shape(out[9]) = Recorded9
    /\ OnData(10) => out[10].kind = "DataMapping" /\ Shape(out[10]) = Recorded10
    /\ OnData(11) =>
          /\ out[11].kind = "DataMapping"
          /\ Shape(out[11]) = Recorded11
          /\ \A k \in Range(EventKeys) : Skeleton(out[11].vals[k]) = Skeleton(out[2])

C7_Witness ==
    /\ call.op = "DataCollection"
    /\ call.x.type = "dict"
    /\ \E k \in Range(ret.keys) : IsCollection(ret.vals[k])

CellTag == [i \in OpenCells |-> IF i = 2 THEN "c2" ELSE "c13"]

RECURSIVE Origins(_)
(* the calls a value comes from: those that made its objects and opened its arrays *)
Origins(v) ==
    IF v.kind = "DataArray" THEN {v.src}
    ELSE IF v.kind = "DataSequence"
    THEN Range(v.id) \cup UNION {Origins(v.vals[i]) : i \in 1..Len(v.vals)}
    ELSE IF v.kind = "DataMapping"
    THEN Range(v.id) \cup UNION {Origins(v.vals[k]) : k \in Range(v.keys)}
    ELSE {}

NothingFrom(i) ==
    /\ \A n \in Names : CellTag[i] \notin Origins(ns[n])
    /\ \A j \in Cells : CellTag[i] \notin Origins(out[j])

C6_Sequential ==
    [][/\ Cardinality({i \in Cells : status'[i] = "running"}) <= 1
       /\ counter' = pc'
       /\ \A i \in Cells :
             /\ status'[i] # "idle" =>
                   /\ i <= NumCells[version]
                   /\ execution_count'[i] = RecordedExecutionCount[version][i]
                   /\ \A j \in 1..(i - 1) : Ran(j)'
             /\ status'[i] = "idle" => execution_count'[i] = 0 /\ out'[i] = None
       /\ (ns' # ns \/ out' # out) =>
             \/ counter' = 0
             \/ \E i \in Cells : status[i] = "running" /\ Ran(i)'
      ]_vars

C6_Witness ==
    /\ version = "new"
    /\ \A i \in Cells : Ran(i) /\ execution_count[i] = i
    /\ counter = 14

Written(w) == "kind" \notin DOMAIN w

(* C8: the data-setup step (unzip, rm -rf outputs, mkdir -p outputs) leaves *)
(* an existing, empty outputs directory whatever the folder held before,    *)
(* and running it twice gives what running it once gives; once it was run   *)
(* the directory stays, so the notebook's two writes find it.               *)
C8_Setup ==
    [][/\ SetupStep(fs, version).outputs = [exists |-> TRUE, files |-> {}]
       /\ SetupStep(SetupStep(fs, version), version) = SetupStep(fs, version)
       /\ Written(to_netcdf(SetupStep(fs, version), "multicable.nc"))
       /\ Written(to_netcdf(SetupStep(fs, version), "singlecable.nc"))
       /\ fs.outputs.exists => fs'.outputs.exists
       /\ (status[7] = "running" /\ status'[7] = "error" /\ Bound(ns, "dc")) =>
             ~fs.outputs.exists
       /\ (status[8] = "running" /\ status'[8] = "error" /\ Bound(ns', "da")) =>
             ~fs.outputs.exists
      ]_vars

C8_Witness ==
    /\ status[7] = "ok"
    /\ status[8] = "ok"
    /\ fs.outputs = [exists |-> TRUE, files |-> {}]
    /\ fs.data

(* C9 as stated: after git reset --hard HEAD the folder's content equals    *)
(* its content right after git clone.                                       *)
C9_ResetRestoresClone ==
    [][(fs' = GitResetHard(fs) /\ UNCHANGED <<version, kernel, call, ret>>)
          => fs' = FreshClone]_vars

(* C10: to_netcdf writes the file and changes nothing else: after cell 7    *)
(* outputs/multicable.nc exists and after cell 8 outputs/singlecable.nc,    *)
(* dc and da are as before (dc["SER"]["N"][0] is readable, later sel calls  *)
(* give the shapes they gave before the save), and data/ is untouched.      *)
C10_SaveFrame ==
    [][/\ (status[7] = "running" /\ status'[7] = "ok") =>
             /\ fs'.outputs.exists
             /\ fs'.outputs.files = fs.outputs.files \cup {"multicable.nc"}
             /\ ns' = ns
             /\ fs'.data = fs.data /\ fs'.zips = fs.zips /\ fs'.tracked = fs.tracked
       /\ (status[8] = "running" /\ status'[8] = "ok") =>
             /\ fs'.outputs.files = fs.outputs.files \cup {"singlecable.nc"}
             /\ ns'.dc = ns.dc
             /\ ns'.da = Follow(ns.dc, <<"SER", "N", 0>>)
             /\ fs'.data = fs.data /\ fs'.zips = fs.zips /\ fs'.tracked = fs.tracked
       /\ (status[9] = "running" /\ OnData(9)' /\ status[8] = "ok") =>
             Shape(out'[9]) = Recorded9
       /\ (status[11] = "running" /\ OnData(11)' /\ status[7] = "ok" /\ OnData(6)) =>
             Shape(out'[11].vals[EventKeys[2]]) = Shape(out[6])
      ]_vars

C10_Witness ==
    /\ status[7] = "ok"
    /\ status[8] = "ok"
    /\ {"multicable.nc", "singlecable.nc"} \subseteq fs.outputs.files
    /\ OnData(11)
    /\ Shape(out[11].vals[EventKeys[2]]) = Shape(out[6])

(* the time label of sample i of an array, and of its last sample *)
LabelAt(da, i) == da.t0 + i * da.dt
LastLabel(da) == LabelAt(da, da.time - 1)

(* after holds exactly the samples of before whose label lies in [a, b]:   *)
(* a run of consecutive samples of before, inside [a, b], that no sample   *)
(* of before inside [a, b] is left out of                                  *)
KeepsExactly(before, after, a, b) ==
    /\ after.dt = before.dt
    /\ after.distance = before.distance
    /\ IF after.time = 0
       THEN \A i \in 0..(before.time - 1) :
               ~(a <= LabelAt(before, i) /\ LabelAt(before, i) <= b)
       ELSE LET first == (after.t0 - before.t0) \div before.dt
                last  == first + after.time - 1
            IN /\ after.t0 = LabelAt(before, first)
               /\ 0 <= first /\ last <= before.time - 1
               /\ a <= after.t0 /\ LastLabel(after) <= b
               /\ first = 0 \/ LabelAt(before, first - 1) < a
               /\ last = before.time - 1 \/ LabelAt(before, last + 1) > b

(* floor((b - t0)/dt) - ceil((a - t0)/dt) + 1 *)
CountFormula(da, a, b) ==
    ((b - da.t0) \div da.dt) - ((a - da.t0 + da.dt - 1) \div da.dt) + 1

(* the slice lies within the time axis of the array *)
WithinAxis(da, a, b) ==
    da.time > 0 /\ da.t0 <= a /\ a <= b /\ b <= LastLabel(da)

(* the pairs (array, its selection) of a collection and its selection *)
SelPairs(before, after) ==
    IF Len(Leaves(before)) # Len(Leaves(after)) THEN {<<None, None>>}
    ELSE {<<Leaves(before)[i].da, Leaves(after)[i].da>> : i \in 1..Len(Leaves(before))}

(* every array of after keeps exactly the samples of its array of before   *)
(* inside [a, b], as many as the formula says when the slice lies within   *)
(* the axis                                                                *)
SelHolds(before, after, a, b) ==
    \A p \in SelPairs(before, after) :
       /\ p[1] # None
       /\ KeepsExactly(p[1], p[2], a, b)
       /\ WithinAxis(p[1], a, b) => p[2].time = CountFormula(p[1], a, b)

CcnN(v) == Follow(v, <<"CCN", "N", 0>>)

(* C11 as stated: slice(a, b) keeps the samples with a <= t <= b and their  *)
(* number is floor((b - t0)/dt) - ceil((a - t0)/dt) + 1 on every regular    *)
(* time axis and for every slice.                                           *)
C11_Original ==
    [][call'.op = "sel" =>
          \A p \in SelPairs(ret, ret') :
             /\ p[1] # None
             /\ KeepsExactly(p[1], p[2], call'.a, call'.b)
             /\ p[2].time = CountFormula(p[1], call'.a, call'.b)
      ]_vars

(* C11 amended: slice(a, b) keeps exactly the samples with a <= t <= b,     *)
(* both ends included; when the slice lies within the time axis their       *)
(* number is floor((b - t0)/dt) - ceil((a - t0)/dt) + 1.  CCN/N starts at   *)
(* 12:20:06.000 with a step of 16 ms and 37500 samples, the last one at     *)
(* 12:30:05.984; 12:26:40..12:27:50 keeps 4376 of them and                  *)
(* 12:23:35..12:24:00 keeps 1563.                                           *)
C11_Amended ==
    [][/\ call'.op = "sel" => SelHolds(ret, ret', call'.a, call'.b)
       /\ (status[3] = "running" /\ status'[3] = "ok") =>
             /\ out'[3] = CcnN(ns.dc)
             /\ out'[3].t0 = 0 /\ out'[3].dt = 16 /\ out'[3].time = 37500
             /\ LastLabel(out'[3]) = 599984
       /\ (status[6] = "running" /\ status'[6] = "ok") =>
             /\ SelHolds(ns.dc, out'[6], T_12_26_40, T_12_27_50)
             /\ OnData(6)' =>
                   /\ WithinAxis(CcnN(ns.dc), T_12_26_40, T_12_27_50)
                   /\ CcnN(out'[6]).time = 4376
       /\ (status[9] = "running" /\ status'[9] = "ok") =>
             /\ SelHolds(ns.da, getitem(out'[9], 0), T_12_23_35, T_12_24_00)
             /\ SelHolds(ns.da, getitem(out'[9], 1), T_12_26_40, T_12_27_50)
       /\ (status[11] = "running" /\ status'[11] = "ok") =>
             /\ SelHolds(ns.dc, out'[11].vals[EventKeys[1]], T_12_23_35, T_12_24_00)
             /\ SelHolds(ns.dc, out'[11].vals[EventKeys[2]], T_12_26_40, T_12_27_50)
             /\ OnData(11)' =>
                   /\ WithinAxis(CcnN(ns.dc), T_12_23_35, T_12_24_00)
                   /\ CcnN(out'[11].vals[EventKeys[1]]).time = 1563
                   /\ CcnN(out'[11].vals[EventKeys[2]]).time = 4376
      ]_vars

C11_Witness ==
    /\ OnData(6) /\ OnData(11)
    /\ Follow(out[6], <<"CCN", "N", 0>>).time = 4376
    /\ Follow(out[11], <<EventKeys[1], "CCN", "N", 0>>).time = 1563
    /\ Follow(out[11], <<EventKeys[1], "CCN", "N", 0>>).t0 > T_12_23_35
    /\ Follow(out[11], <<EventKeys[1], "CCN", "N", 0>>).t0 < T_12_23_35 + 16

(* the arrays of a tree with the keys leading to them, in the order of the  *)
(* keys and of the indices                                                 *)
LeafVisits(c) ==
    [x \in 1..Len(Leaves(c)) |->
        [node |-> Leaves(c)[x].path[1], cable |-> Leaves(c)[x].path[2],
         da |-> Leaves(c)[x].da]]

IsPrefix(s, t) == Len(s) <= Len(t) /\ SubSeq(t, 1, Len(s)) = s

(* C12: the three nested loops over a tree end, and when they end the loop  *)
(* body has run exactly once for each array of the tree, in the order of    *)
(* the keys and of the indices: iterating a DataMapping binds its keys,     *)
(* each of which indexes the mapping, iterating a DataSequence binds its    *)
(* arrays in index order; on the multicable tree the body runs 3 times and  *)
(* cell 5 leaves node, cable and da bound to the last values they took.     *)
C12_Iteration ==
    /\ [][/\ call'.op = "for" =>
               /\ IsPrefix(call'.st.visits, LeafVisits(ret'))
               /\ LoopDone(ret', call'.st) =>
                     /\ call'.st.visits = LeafVisits(ret')
                     /\ Shape(ret') = Recorded2 => Len(call'.st.visits) = 3
               /\ call.op = "for" =>
                     Len(call'.st.visits) - Len(call.st.visits) \in {0, 1}
               /\ \A x \in 1..Len(call'.st.visits) :
                     LET v == call'.st.visits[x]
                     IN /\ v.node.kind = "str" /\ v.cable.kind = "str"
                        /\ v.da.kind = "DataArray"
                        /\ HasKey(ret', v.node.value)
                        /\ HasKey(getitem(ret', v.node.value), v.cable.value)
                        /\ \E y \in 1..Len(Follow(ret', <<v.node.value, v.cable.value>>).vals) :
                              getitem(Follow(ret', <<v.node.value, v.cable.value>>), y - 1) = v.da
          /\ (status[5] = "running" /\ status'[5] = "ok") =>
               LET st == RunLoop(ns.dc, InitLoop(ns.node, ns.cable, ns.da))
               IN /\ LoopDone(ns.dc, st)
                  /\ st.visits = LeafVisits(ns.dc)
                  /\ OnData(2) => Len(st.visits) = 3
                  /\ ns'.dc = ns.dc
                  /\ st.visits # <<>> =>
                        /\ ns'.node = st.visits[Len(st.visits)].node
                        /\ ns'.cable = st.visits[Len(st.visits)].cable
                        /\ ns'.da = st.visits[Len(st.visits)].da
          ]_vars
    /\ (call.op = "for") ~> (call.op = "for" /\ LoopDone(ret, call.st))

C12_Witness ==
    /\ call.op = "for"
    /\ LoopDone(ret, call.st)
    /\ Shape(ret) = Recorded2
    /\ Len(call.st.visits) = 3
    /\ call.st.da = Follow(ret, <<"SER", "S", 0>>)

Spec == Init /\ [][Next]_vars

(* the interpreter goes on with a loop it has started *)
FairSpec == Spec /\ WF_vars(LibForStep)

====
